---- MODULE Spec2Model ----
(***************************************************************************)
(* FloatingTerminalButton: a draggable floating button that navigates to   *)
(* the terminal view on click and keeps its position in localStorage.      *)
(*                                                                         *)
(* The component is a React function component.  Every handler is a        *)
(* closure over the state of the render that created it.  The handlers the *)
(* button element receives (onClick, onKeyDown, onMouseDown, ...) are      *)
(* those of the latest render; the handlers registered on window are those *)
(* of the render in which the listener effect last ran, because the effect *)
(* only re-runs when isDragging or initialPos change.  State updates are   *)
(* rendered before the next event is delivered.  isHovered only selects a  *)
(* class name and is read by no handler; it is left out.                   *)
(***************************************************************************)
EXTENDS Integers, Sequences, FiniteSets, TLC

\* window.innerWidth and innerHeight are at most MaxViewport.
MaxViewport == 2
\* offsetWidth and offsetHeight of the button are at most MaxButton.
MaxButton == 1
\* The component is mounted at most MaxMounts times in one behaviour.
MaxMounts == 2

VARIABLES
    mounted,             \* the component is in the tree
    instance,            \* number of the component instance (counts mounts)
    position,            \* React state, line 27
    isDragging,          \* React state, line 28
    initialPos,          \* React state, line 29
    effectEnv,           \* the render whose handlers the listener effect holds
    mousemoveListeners,  \* window 'mousemove' listeners, in registration order
    mouseupListeners,    \* window 'mouseup' listeners, in registration order
    localStorage,        \* the item 'terminalButtonPosition'
    innerSize,           \* window.innerWidth, window.innerHeight
    offsetSize,          \* buttonRef.current.offsetWidth, .offsetHeight
    lastEvent,           \* observation: the event delivered last, <<type, argument>>
    pointer,             \* observation: <<clientX, clientY>> of that event
    navigated,           \* observation: calls of navigate("terminal") by the last event
    wrote,               \* observation: calls of localStorage.setItem by the last event
    raised,              \* observation: the last event let an exception escape
    gesture,             \* observation: the pointer gesture in progress
    saved                \* observation: the position of the last successful setItem

vars == <<mounted, instance, position, isDragging, initialPos, effectEnv,
          mousemoveListeners, mouseupListeners, localStorage, innerSize, offsetSize,
          lastEvent, pointer, navigated, wrote, raised, gesture, saved>>

component == <<mounted, instance, position, isDragging, initialPos, effectEnv>>
listeners == <<mousemoveListeners, mouseupListeners>>
environment == <<innerSize, offsetSize>>

----------------------------------------------------------------------------
(* JavaScript values.  A scalar is a number, NaN, undefined, null or a     *)
(* non-numeric string; a position value is an object with fields x and y,  *)
(* null, or a primitive (a value without fields x and y).                  *)

Num(n) == [k |-> "number", n |-> n]
NaN == [k |-> "NaN", n |-> 0]
Undefined == [k |-> "undefined", n |-> 0]
Null == [k |-> "null", n |-> 0]
Str == [k |-> "string", n |-> 0]

IsNum(v) == v.k = "number"

Obj(x, y) == [k |-> "object", x |-> x, y |-> y]
NullValue == [k |-> "null", x |-> Undefined, y |-> Undefined]
Primitive == [k |-> "primitive", x |-> Undefined, y |-> Undefined]

\* React.useState({ x: 0, y: 0 })
DefaultPosition == Obj(Num(0), Num(0))

\* v.x and v.y of a value that is not null: a primitive has neither field.
FieldX(v) == IF v.k = "object" THEN v.x ELSE Undefined
FieldY(v) == IF v.k = "object" THEN v.y ELSE Undefined

\* ToNumber: null is 0, undefined and a non-numeric string are NaN.
ToNumber(v) ==
    CASE v.k = "number" -> v
      [] v.k = "null" -> Num(0)
      [] OTHER -> NaN

\* a - b
Minus(a, b) ==
    LET l == ToNumber(a)
        r == ToNumber(b)
    IN  IF IsNum(l) /\ IsNum(r) THEN Num(l.n - r.n) ELSE NaN

\* Math.min(a, b) and Math.max(a, b) of numbers: NaN if either is NaN.
MathMin(a, b) ==
    IF IsNum(a) /\ IsNum(b) THEN (IF a.n <= b.n THEN a ELSE b) ELSE NaN
MathMax(a, b) ==
    IF IsNum(a) /\ IsNum(b) THEN (IF a.n >= b.n THEN a ELSE b) ELSE NaN

----------------------------------------------------------------------------
(* The stored item: absent (getItem returns null), the empty string, a     *)
(* text that is not JSON, or a JSON text: null, a primitive, or an object  *)
(* whose fields x and y are each missing, a number, null or a string.      *)

Missing == [k |-> "missing", n |-> 0]

Absent == [k |-> "absent", x |-> Missing, y |-> Missing]
EmptyText == [k |-> "empty", x |-> Missing, y |-> Missing]
Malformed == [k |-> "malformed", x |-> Missing, y |-> Missing]
NullText == [k |-> "null", x |-> Missing, y |-> Missing]
PrimitiveText == [k |-> "primitive", x |-> Missing, y |-> Missing]
ObjText(x, y) == [k |-> "object", x |-> x, y |-> y]

\* JSON.stringify of one field: undefined is left out, NaN is written as null.
StringifyField(v) ==
    CASE v.k = "undefined" -> Missing
      [] v.k = "NaN" -> Null
      [] OTHER -> v

JSONStringify(v) ==
    CASE v.k = "object" -> ObjText(StringifyField(v.x), StringifyField(v.y))
      [] v.k = "null" -> NullText
      [] OTHER -> PrimitiveText

ParseField(f) == IF f.k = "missing" THEN Undefined ELSE f

\* JSON.parse of a JSON text (it throws on a text that is not JSON).
JSONParse(t) ==
    CASE t.k = "object" -> Obj(ParseField(t.x), ParseField(t.y))
      [] t.k = "null" -> NullValue
      [] OTHER -> Primitive

----------------------------------------------------------------------------
(* The component's code, as operators over the state a render closes over. *)

\* The values a render's handlers close over.
Env(inst, dragging, anchor, pos) ==
    [inst |-> inst, isDragging |-> dragging, initialPos |-> anchor, position |-> pos]

\* (mutant) a mount effect that reads the item and does not adopt it
MountEffectIgnores(item) == DefaultPosition
\* The mount effect: the position after it ran on the stored item.
MountEffect(item) ==
    IF item.k \in {"absent", "empty"}
    THEN DefaultPosition                \* if (savedPosition) is false
    ELSE IF item.k = "malformed"
         THEN DefaultPosition           \* JSON.parse throws, the catch logs it
         ELSE JSONParse(item)           \* setPosition(parsedPosition)

\* Rendering reads position.y and position.x: a TypeError when position is null.
RenderThrows(pos) == pos.k = "null"

\* CSS lengths of buttonStyle: 'auto', '1.5rem', and a value followed by 'px'.
Auto == [k |-> "auto", n |-> 0]
Rem == [k |-> "1.5rem", n |-> 0]
Px(v) == IF IsNum(v) THEN [k |-> "px", n |-> v.n] ELSE [k |-> "text", n |-> 0]

\* v === 0
StrictZero(v) == IsNum(v) /\ v.n = 0

\* buttonStyle of a render with the given position (one that is not null).
ButtonStyle(pos) ==
    [bottom |-> IF StrictZero(FieldY(pos)) THEN Rem ELSE Auto,
     right |-> IF StrictZero(FieldX(pos)) THEN Rem ELSE Auto,
     top |-> IF ~StrictZero(FieldY(pos)) THEN Px(FieldY(pos)) ELSE Auto,
     left |-> IF ~StrictZero(FieldX(pos)) THEN Px(FieldX(pos)) ELSE Auto]

\* (mutant) a handleClick without the test of isDragging
HandleClickAlways(dragging) == 1
\* handleClick of a render with the given isDragging: the calls of navigate.
HandleClick(dragging) == IF ~dragging THEN 1 ELSE 0

\* handleKeyDown of a render with the given isDragging: the calls of navigate.
HandleKeyDown(key, dragging) ==
    IF key = "Enter" \/ key = " " THEN HandleClick(dragging) ELSE 0

\* (mutant) a handleMouseDown without the test of e.button
MouseDownAcceptsAny(button) == TRUE
\* handleMouseDown: whether the event starts a drag, and the anchor it records.
MouseDownAccepted(button) == ~(button # 0)
\* (mutant) an anchor that leaves out the button's current position
MouseDownAnchorPointer(cx, cy, pos) == Obj(Num(cx), Num(cy))
MouseDownAnchor(cx, cy, pos) ==
    Obj(Minus(Num(cx), FieldX(pos)), Minus(Num(cy), FieldY(pos)))

\* (mutant) the two bounds applied in the other order
BoundedMinLast(new, max) == MathMin(max, MathMax(Num(0), new))
\* Math.max(0, Math.min(newX, maxX))
Bounded(new, max) == MathMax(Num(0), MathMin(new, max))

\* The instance a render belongs to is in the tree: its ref holds the button,
\* and its state setters act (those of an instance taken out change nothing).
Live(env) == mounted /\ env.inst = instance

\* buttonRef.current?.offsetWidth: undefined when the ref holds no element.
OffsetWidth(env) == IF Live(env) THEN Num(offsetSize.w) ELSE Undefined
OffsetHeight(env) == IF Live(env) THEN Num(offsetSize.h) ELSE Undefined

\* (mutant) the measurement used as it is
OrZeroNone(v) == v
\* v || 0: undefined, NaN and 0 give 0.
OrZero(v) == IF IsNum(v) /\ v.n # 0 THEN v ELSE Num(0)

\* buttonRef.current?.offsetWidth || 0, for the instance the handler belongs to.
ButtonWidth(env) == OrZero(OffsetWidth(env))
ButtonHeight(env) == OrZero(OffsetHeight(env))

\* handleMouseMove of the render env: the position it sets (it returns early
\* when its isDragging is false, see MoveAll).
HandleMouseMove(env, cx, cy) ==
    LET newX == Minus(Num(cx), env.initialPos.x)
        newY == Minus(Num(cy), env.initialPos.y)
        maxX == Minus(Num(innerSize.w), ButtonWidth(env))
        maxY == Minus(Num(innerSize.h), ButtonHeight(env))
    IN  Obj(Bounded(newX, maxX), Bounded(newY, maxY))

\* The window dispatches 'mousemove' to its listeners in registration order.
RECURSIVE MoveAll(_, _, _, _)
MoveAll(ls, cx, cy, pos) ==
    IF ls = <<>> THEN pos
    ELSE LET env == Head(ls)
         IN  MoveAll(Tail(ls), cx, cy,
                     IF env.isDragging /\ Live(env)
                     THEN HandleMouseMove(env, cx, cy)
                     ELSE pos)

\* handleMouseUp acts only in a render whose isDragging is true.
HandleMouseUpActs(env) == env.isDragging
\* The value handleMouseUp passes to localStorage.setItem.
HandleMouseUpItem(env) == JSONStringify(env.position)

\* The listener effect (deps [isDragging, initialPos]): its body registers the
\* handlers of its render while dragging, its cleanup removes those handlers.
AddListener(ls, env) ==
    IF \E i \in 1..Len(ls) : ls[i] = env THEN ls ELSE Append(ls, env)
\* (mutant) a removeEventListener that finds no listener to remove
RemoveListenerNone(ls, env) == ls
RemoveListener(ls, env) == SelectSeq(ls, LAMBDA c : c # env)
EffectBody(ls, env) == IF env.isDragging THEN AddListener(ls, env) ELSE ls
\* (mutant) a cleanup that removes nothing
EffectCleanupKeeps(ls, env) == ls
EffectCleanup(ls, env) == RemoveListener(ls, env)
\* (mutant) a re-run of the effect that skips the previous cleanup
EffectRerunNoCleanup(ls, old, new) == EffectBody(ls, new)
\* A render with changed deps: the previous cleanup, then the body.
EffectRerun(ls, old, new) == EffectBody(EffectCleanup(ls, old), new)

----------------------------------------------------------------------------
(* Observations.  gesture follows the pointer events since the last primary *)
(* pointer-down: phase "down" until the pointer-up (clicks and key-downs    *)
(* that arrive meanwhile leave it), "released" until the click that the     *)
(* release delivers, then "clicked"; "torn" after a teardown in the middle  *)
(* of a drag.  moved: a pointer-move arrived; inb: every move was to a      *)
(* coordinate in the viewport; beyond: the last move was to one outside it; *)
(* start, shown: the position at pointer-down and at pointer-up; store: the *)
(* stored item at pointer-down, kept while the drag lasts and after a       *)
(* teardown; writes, written, failed: the setItem calls of the pointer-up,  *)
(* their value and whether setItem threw; navs: the navigate calls of the   *)
(* click.                                                                   *)

None == [k |-> "none", x |-> Undefined, y |-> Undefined]

\* The pointer coordinate recorded for an event that carries none.
NoPointer == <<0, 0>>

NoGesture ==
    [phase |-> "none", moved |-> FALSE, inb |-> TRUE, beyond |-> FALSE,
     start |-> DefaultPosition, shown |-> DefaultPosition, store |-> Absent,
     written |-> Absent, writes |-> 0, failed |-> FALSE, navs |-> 0]

\* The pointer coordinate lies in the viewport.
InViewport(cx, cy) ==
    /\ 0 <= cx /\ cx <= innerSize.w
    /\ 0 <= cy /\ cy <= innerSize.h

\* Pointer coordinates (clientX, clientY): the window's origin, inside it, and
\* beyond its right (lower) edge.  A pointer-down at 1 followed by a move to 0
\* asks for the coordinate -1, so the clamp's lower bound is exercised too.
Coords == {0, 1, MaxViewport + 1}
Buttons == {0, 2}
Keys == {"Enter", " ", "a"}

\* The window and the button of a behaviour: a window the button fits in, and a
\* window smaller than the button.
Sizes == {[w |-> MaxViewport, h |-> MaxViewport], [w |-> 0, h |-> 0]}
ButtonSizes == {[w |-> MaxButton, h |-> MaxButton]}

\* What the store may hold when the component is first mounted: nothing, texts
\* that are no position record, and records of earlier sessions (whose window
\* may have been larger).
InitialItems ==
    {Absent, EmptyText, Malformed, NullText, PrimitiveText,
     ObjText(Num(1), Missing), ObjText(Str, Num(1)),
     ObjText(Num(MaxViewport + 1), Num(MaxViewport + 1))}

\* Every window and button size and every pointer coordinate from left of the
\* window to beyond its right edge, for the checks of the clamp.
AllSizes == [w : 0..MaxViewport, h : 0..MaxViewport]
AllButtonSizes == [w : 0..MaxButton, h : 0..MaxButton]
AllCoords == -1..(MaxViewport + 1)

----------------------------------------------------------------------------
(* The state machine.                                                      *)

InitWith(items, sizes, buttonSizes) ==
    /\ mounted = FALSE
    /\ instance = 0
    /\ position = DefaultPosition
    /\ isDragging = FALSE
    /\ initialPos = DefaultPosition
    /\ effectEnv = Env(0, FALSE, DefaultPosition, DefaultPosition)
    /\ mousemoveListeners = <<>>
    /\ mouseupListeners = <<>>
    /\ localStorage \in items
    /\ innerSize \in sizes
    /\ offsetSize \in buttonSizes
    /\ lastEvent = <<"none", "">>
    /\ pointer = NoPointer
    /\ navigated = 0
    /\ wrote = 0
    /\ raised = FALSE
    /\ gesture = NoGesture
    /\ saved = None

Init == InitWith(InitialItems, Sizes, ButtonSizes)

\* The component is mounted: the first render with the useState defaults, the
\* mount effect and the listener effect, then the render of the loaded position.
\* A render that throws takes the component out of the tree again.
Mount ==
    /\ ~mounted
    /\ instance < MaxMounts
    /\ LET first == Env(instance + 1, FALSE, DefaultPosition, DefaultPosition)
           loaded == MountEffect(localStorage)
           crash == RenderThrows(loaded)
       IN  /\ instance' = instance + 1
           /\ mounted' = ~crash
           /\ position' = IF crash THEN DefaultPosition ELSE loaded
           /\ effectEnv' = first
           /\ mousemoveListeners' =
                IF crash
                THEN EffectCleanup(EffectBody(mousemoveListeners, first), first)
                ELSE EffectBody(mousemoveListeners, first)
           /\ mouseupListeners' =
                IF crash
                THEN EffectCleanup(EffectBody(mouseupListeners, first), first)
                ELSE EffectBody(mouseupListeners, first)
           /\ raised' = crash
    /\ isDragging' = FALSE
    /\ initialPos' = DefaultPosition
    /\ lastEvent' = <<"mount", "">>
    /\ pointer' = NoPointer
    /\ navigated' = 0
    /\ wrote' = 0
    /\ gesture' = NoGesture
    /\ UNCHANGED <<localStorage, innerSize, offsetSize, saved>>

\* The component is taken out of the tree: the listener effect's cleanup runs.
Unmount ==
    /\ mounted
    /\ mounted' = FALSE
    /\ mousemoveListeners' = EffectCleanup(mousemoveListeners, effectEnv)
    /\ mouseupListeners' = EffectCleanup(mouseupListeners, effectEnv)
    /\ position' = DefaultPosition
    /\ isDragging' = FALSE
    /\ initialPos' = DefaultPosition
    /\ effectEnv' = Env(instance, FALSE, DefaultPosition, DefaultPosition)
    /\ lastEvent' = <<"unmount", "">>
    /\ pointer' = NoPointer
    /\ navigated' = 0
    /\ wrote' = 0
    /\ raised' = FALSE
    /\ gesture' = IF isDragging
                  THEN [NoGesture EXCEPT !.phase = "torn", !.start = gesture.start,
                                         !.store = gesture.store]
                  ELSE NoGesture
    /\ UNCHANGED <<instance, localStorage, innerSize, offsetSize, saved>>

\* onClick: handleClick of the latest render.
Click ==
    /\ mounted
    /\ navigated' = HandleClick(isDragging)
    /\ lastEvent' = <<"click", "">>
    /\ pointer' = NoPointer
    /\ wrote' = 0
    /\ raised' = FALSE
    /\ gesture' = CASE gesture.phase = "released" ->
                         [gesture EXCEPT !.phase = "clicked",
                                         !.navs = HandleClick(isDragging)]
                    [] gesture.phase = "down" -> gesture
                    [] OTHER -> NoGesture
    /\ UNCHANGED <<component, listeners, localStorage, environment, saved>>

\* onKeyDown: handleKeyDown of the latest render.
KeyDown(key) ==
    /\ mounted
    /\ navigated' = HandleKeyDown(key, isDragging)
    /\ lastEvent' = <<"keydown", key>>
    /\ pointer' = NoPointer
    /\ wrote' = 0
    /\ raised' = FALSE
    /\ gesture' = IF gesture.phase = "down" THEN gesture ELSE NoGesture
    /\ UNCHANGED <<component, listeners, localStorage, environment, saved>>

\* onMouseDown: handleMouseDown of the latest render, then the render of the new
\* state; initialPos is a new object, so the listener effect runs again.
MouseDown(button, cx, cy) ==
    /\ mounted
    /\ IF MouseDownAccepted(button)
       THEN LET anchor == MouseDownAnchor(cx, cy, position)
                new == Env(instance, TRUE, anchor, position)
            IN  /\ isDragging' = TRUE
                /\ initialPos' = anchor
                /\ effectEnv' = new
                /\ mousemoveListeners' = EffectRerun(mousemoveListeners, effectEnv, new)
                /\ mouseupListeners' = EffectRerun(mouseupListeners, effectEnv, new)
                /\ gesture' = [NoGesture EXCEPT !.phase = "down", !.start = position,
                                                !.store = localStorage]
       ELSE UNCHANGED <<isDragging, initialPos, effectEnv, listeners, gesture>>
    /\ lastEvent' = <<"mousedown", IF button = 0 THEN "primary" ELSE "other">>
    /\ pointer' = <<cx, cy>>
    /\ navigated' = 0
    /\ wrote' = 0
    /\ raised' = FALSE
    /\ UNCHANGED <<mounted, instance, position, localStorage,
                   environment, saved>>

\* A 'mousemove' on window: every registered handleMouseMove runs.  position is
\* no dep of the listener effect, so the listeners stay as they are.
MouseMove(cx, cy) ==
    /\ position' = MoveAll(mousemoveListeners, cx, cy, position)
    /\ lastEvent' = <<"mousemove", "">>
    /\ pointer' = <<cx, cy>>
    /\ navigated' = 0
    /\ wrote' = 0
    /\ raised' = FALSE
    /\ gesture' = CASE gesture.phase = "down" ->
                         [gesture EXCEPT !.moved = TRUE,
                                         !.inb = @ /\ InViewport(cx, cy),
                                         !.beyond = ~InViewport(cx, cy)]
                    [] gesture.phase = "torn" -> gesture
                    [] OTHER -> NoGesture
    /\ UNCHANGED <<mounted, instance, isDragging, initialPos, effectEnv,
                   listeners, localStorage, environment, saved>>

\* A 'mouseup' on window: every registered handleMouseUp runs; setItem succeeds
\* (ok) or throws, e.g. QuotaExceededError.  isDragging is a dep of the listener
\* effect, so the effect runs again when it changed.
MouseUp(ok) ==
    LET acting == SelectSeq(mouseupListeners, HandleMouseUpActs)
        n == Len(acting)
        ends == \E i \in 1..n : Live(acting[i])
        new == Env(instance, FALSE, initialPos, position)
        rerun == ends /\ isDragging
    IN  /\ isDragging' = IF ends THEN FALSE ELSE isDragging
        /\ localStorage' = IF n > 0 /\ ok THEN HandleMouseUpItem(acting[n])
                           ELSE localStorage
        /\ saved' = IF n > 0 /\ ok THEN acting[n].position ELSE saved
        /\ effectEnv' = IF rerun THEN new ELSE effectEnv
        /\ mousemoveListeners' =
             IF rerun THEN EffectRerun(mousemoveListeners, effectEnv, new)
             ELSE mousemoveListeners
        /\ mouseupListeners' =
             IF rerun THEN EffectRerun(mouseupListeners, effectEnv, new)
             ELSE mouseupListeners
        /\ wrote' = n
        /\ raised' = (n > 0 /\ ~ok)
        /\ gesture' = CASE gesture.phase = "down" ->
                             [gesture EXCEPT
                                !.phase = "released",
                                !.store = Absent,
                                !.shown = position,
                                !.writes = n,
                                !.failed = (n > 0 /\ ~ok),
                                !.written = IF n > 0 THEN HandleMouseUpItem(acting[n])
                                            ELSE Absent]
                        [] gesture.phase = "torn" -> gesture
                        [] OTHER -> NoGesture
        /\ lastEvent' = <<"mouseup", IF n = 0 THEN "" ELSE IF ok THEN "stored" ELSE "quota">>
        /\ pointer' = NoPointer
        /\ navigated' = 0
        /\ UNCHANGED <<mounted, instance, position, initialPos,
                       environment>>

Next ==
    \/ Mount
    \/ Unmount
    \/ Click
    \/ \E key \in Keys : KeyDown(key)
    \/ \E cx \in Coords, cy \in Coords : MouseDown(0, cx, cy)
    \/ \E button \in Buttons \ {0} : MouseDown(button, 0, 0)
    \/ \E cx \in Coords, cy \in Coords : MouseMove(cx, cy)
    \/ \E ok \in BOOLEAN : MouseUp(ok)

Spec == Init /\ [][Next]_vars

\* Drags alone, over every window and button size: the component is mounted on
\* an empty store or on a record with a non-numeric field, a pointer-down starts
\* a drag and pointer-moves follow.  The handlers compute the two axes apart, so
\* the pointer-downs are taken on the diagonal and the pointer-moves anywhere.
InitClamp == InitWith({Absent, ObjText(Str, Num(1))}, AllSizes, AllButtonSizes)

NextClamp ==
    \/ Mount
    \/ \E c \in Coords : MouseDown(0, c, c)
    \/ \E cx \in AllCoords, cy \in AllCoords : MouseMove(cx, cy)

SpecClamp == InitClamp /\ [][NextClamp]_vars

----------------------------------------------------------------------------
(* Properties.                                                             *)

TypeOK ==
    /\ mounted \in BOOLEAN
    /\ instance \in 0..MaxMounts
    /\ isDragging \in BOOLEAN
    /\ position.k \in {"object", "primitive"}
    /\ initialPos.k = "object"
    /\ Len(mousemoveListeners) <= 1
    /\ Len(mouseupListeners) <= 1
    /\ navigated \in 0..1
    /\ wrote \in 0..1
    /\ raised \in BOOLEAN
    /\ gesture.phase \in {"none", "down", "released", "clicked", "torn"}

\* The largest coordinate of the button on an axis: max(0, viewport - control).
MaxOffset(viewport, control) == IF viewport - control > 0 THEN viewport - control ELSE 0

\* A position with numeric x and y.
Numeric(pos) == pos.k = "object" /\ IsNum(pos.x) /\ IsNum(pos.y)

\* The position lies in [0, max(0, viewport - control)] on both axes.
Within(pos) ==
    /\ Numeric(pos)
    /\ 0 <= pos.x.n /\ pos.x.n <= MaxOffset(innerSize.w, offsetSize.w)
    /\ 0 <= pos.y.n /\ pos.y.n <= MaxOffset(innerSize.h, offsetSize.h)

\* C1 (drag with movement): after a pointer-down on the button at a position
\* within the bounds, pointer-moves to coordinates in the viewport that moved
\* the button to another position, the pointer-up (whose store write does not
\* fail) and the click the release delivers, the store was written exactly
\* once, with the position shown at pointer-up, and navigate was not called.
DragWithMovement ==
    (/\ gesture.phase = "clicked"
     /\ gesture.moved
     /\ gesture.inb
     /\ ~gesture.failed
     /\ Within(gesture.start)
     /\ Within(gesture.shown)
     /\ gesture.shown # gesture.start)
    => /\ gesture.writes = 1
       /\ gesture.written = JSONStringify(gesture.shown)
       /\ gesture.navs = 0

\* C2 (click without movement): after a pointer-down on the button at a
\* position within the bounds, the pointer-up with no pointer-move in between
\* (whose store write, if any, does not fail) and the click, navigate was called
\* exactly once and the store was not written.
ClickWithoutMovement ==
    (/\ gesture.phase = "clicked"
     /\ ~gesture.moved
     /\ ~gesture.failed
     /\ Within(gesture.start))
    => /\ gesture.navs = 1
       /\ gesture.writes = 0

\* C3 (keyboard activation): a key-down of Enter or Space calls navigate exactly
\* once and does not write the store, in every state of the control (stated for
\* the states whose position is within the bounds), a drag in progress included.
KeyboardActivation ==
    (/\ lastEvent = <<"keydown", "Enter">> \/ lastEvent = <<"keydown", " ">>
     /\ Within(position))
    => /\ navigated = 1
       /\ wrote = 0

\* A drag session is active.
DragActive == mounted /\ isDragging

\* C4 (listener hygiene): the window 'mousemove' and 'mouseup' listeners are
\* registered exactly while a drag session is active, so none is left after a
\* pointer-up or after a teardown in the middle of a drag; and a pointer-move
\* that arrives while no drag session is active changes no position.
ListenerHygiene ==
    /\ []((mousemoveListeners # <<>>) <=> DragActive)
    /\ []((mouseupListeners # <<>>) <=> DragActive)
    /\ [][(lastEvent'[1] = "mousemove" /\ ~DragActive) => position' = position]_vars

\* A pointer-move arrived after a teardown in the middle of a drag, in a
\* behaviour in which an earlier drag was ended by a pointer-up.
ListenerHygieneWitness ==
    /\ gesture.phase = "torn"
    /\ lastEvent[1] = "mousemove"
    /\ saved # None
    /\ mousemoveListeners = <<>>
    /\ mouseupListeners = <<>>

\* C5 (clamping): the position a pointer-move sets from a numeric proposed
\* position lies in [0, max(0, viewport - control)] on both axes, for every
\* window and button size; on an axis on which the window is smaller than the
\* button it is 0.
ClampWithinBounds ==
    (lastEvent[1] = "mousemove" /\ DragActive /\ Numeric(initialPos))
    => /\ Within(position)
       /\ innerSize.w < offsetSize.w => position.x = Num(0)
       /\ innerSize.h < offsetSize.h => position.y = Num(0)

\* A pointer-move set the position in a window narrower than the button (x is
\* 0) and taller than it, with y at the lower boundary.
ClampWitness ==
    /\ lastEvent[1] = "mousemove"
    /\ DragActive
    /\ Numeric(initialPos)
    /\ innerSize.w < offsetSize.w
    /\ position.x = Num(0)
    /\ innerSize.h > offsetSize.h
    /\ position.y = Num(innerSize.h - offsetSize.h)

\* The stored text is a record within the bounds of the window.
ItemWithin(item) == item.k = "object" /\ Within(JSONParse(item))

\* C6 (out-of-bounds drag): after a pointer-down on the button at a position
\* within the bounds, the value written at the pointer-up lies in
\* [0, max(0, viewport - control)] on both axes, and when the last pointer-move
\* of the drag went beyond a viewport edge it is the clamped position the
\* button shows.
OutOfBoundsDrag ==
    (/\ gesture.phase = "released"
     /\ ~gesture.failed
     /\ Within(gesture.start))
    => /\ gesture.writes > 0 => ItemWithin(gesture.written)
       /\ gesture.beyond
          => /\ gesture.writes = 1
             /\ gesture.written = JSONStringify(gesture.shown)

\* The stored text is an object with numeric x and y.
ValidRecord(item) == item.k = "object" /\ IsNum(item.x) /\ IsNum(item.y)

\* C7 (load validation): a mount on a store that holds no record, a text that
\* is not JSON, or a JSON text that is not an object with numeric x and y,
\* leaves the component mounted at the default position and raises nothing.
LoadValidation ==
    (lastEvent[1] = "mount" /\ ~ValidRecord(localStorage))
    => /\ mounted
       /\ ~raised
       /\ position = DefaultPosition

\* C8 (persistence round-trip): a mount that follows a successful write of a
\* position p with numeric x and y starts at p, and a mount on a store that
\* holds nothing starts at (0,0).
PersistenceRoundTrip ==
    lastEvent[1] = "mount"
    => /\ (saved # None /\ Numeric(saved)) => (mounted /\ position = saved)
       /\ localStorage = Absent => (mounted /\ position = DefaultPosition)

\* The component was mounted again after it wrote a position other than (0,0).
PersistenceRoundTripWitness ==
    /\ lastEvent[1] = "mount"
    /\ mounted
    /\ saved # None
    /\ Numeric(saved)
    /\ saved # DefaultPosition
    /\ position = saved

\* C9 (save failure is swallowed): when setItem throws at the pointer-up that
\* ends a drag (stated for a button within the bounds), no exception leaves the
\* handler, the control is no longer dragging and the window listeners are
\* released.
SaveFailureSwallowed ==
    (lastEvent = <<"mouseup", "quota">> /\ Within(position))
    => /\ ~raised
       /\ ~isDragging
       /\ mousemoveListeners = <<>>
       /\ mouseupListeners = <<>>

\* C10 (dragging invariant): while the control is dragging, its position lies
\* in [0, viewportWidth - controlWidth] x [0, viewportHeight - controlHeight]
\* (stated for a numeric position and a window the button fits in).
DraggingInvariant ==
    (/\ DragActive
     /\ Numeric(position)
     /\ innerSize.w >= offsetSize.w
     /\ innerSize.h >= offsetSize.h)
    => /\ 0 <= position.x.n /\ position.x.n <= innerSize.w - offsetSize.w
       /\ 0 <= position.y.n /\ position.y.n <= innerSize.h - offsetSize.h

\* C11 (pointer-down while dragging): a primary pointer-down on the button while
\* a drag session is active (stated for a button within the bounds of a window
\* it fits in) leaves the dragging flag, the anchor offset, the position and the
\* registered window listeners unchanged.
ReentrantPointerDown ==
    [][(/\ DragActive
        /\ Within(position)
        /\ innerSize.w >= offsetSize.w
        /\ innerSize.h >= offsetSize.h
        /\ lastEvent' = <<"mousedown", "primary">>)
       => UNCHANGED <<isDragging, initialPos, position,
                      mousemoveListeners, mouseupListeners>>]_vars

\* C12 (other buttons): a pointer-down with a button other than the primary one
\* starts no drag, records no anchor, registers no window listener, and leaves
\* the position, the store and the gesture in progress untouched; it calls
\* neither navigate nor setItem and raises nothing.
IgnoredButton ==
    [][lastEvent' = <<"mousedown", "other">>
       => /\ UNCHANGED <<component, listeners, localStorage, saved, gesture>>
          /\ navigated' = 0
          /\ wrote' = 0
          /\ ~raised']_vars

\* A non-primary pointer-down arrived on an idle button away from the default
\* position: no drag session and no window listener.
IgnoredButtonWitness ==
    /\ lastEvent = <<"mousedown", "other">>
    /\ mounted
    /\ ~isDragging
    /\ Numeric(position)
    /\ position # DefaultPosition
    /\ mousemoveListeners = <<>>
    /\ mouseupListeners = <<>>

\* C13 (pointer-move writes nothing): a pointer-move leaves the store, the
\* dragging flag and the anchor offset unchanged and calls neither setItem nor
\* navigate; setItem is called by a pointer-up only, and at most once by each.
MoveOnlyPosition ==
    /\ [][lastEvent'[1] = "mousemove"
          => /\ UNCHANGED <<isDragging, initialPos, localStorage, saved>>
             /\ navigated' = 0
             /\ wrote' = 0]_vars
    /\ [](wrote > 0 => lastEvent[1] = "mouseup")
    /\ [](wrote <= 1)
    /\ [](gesture.writes <= 1)

\* A pointer-move of a drag moved the button, in a behaviour in which an earlier
\* drag had written the store; the move wrote nothing.
MoveOnlyPositionWitness ==
    /\ lastEvent[1] = "mousemove"
    /\ DragActive
    /\ gesture.moved
    /\ position # gesture.start
    /\ saved # None
    /\ localStorage = JSONStringify(saved)
    /\ wrote = 0

\* v constrained to the interval [0, hi].
ClampTo(v, hi) == IF v < 0 THEN 0 ELSE IF v > hi THEN hi ELSE v

\* C14 (no drift): a primary pointer-down on a button with a numeric position
\* records the anchor offset pointer - position, and after every pointer-move of
\* a drag with a numeric anchor the position is clamp(pointer - anchor) on both
\* axes, so it is a function of the latest pointer coordinate and the anchor.
NoDrift ==
    /\ [][(lastEvent' = <<"mousedown", "primary">> /\ Numeric(position))
          => initialPos' = Obj(Num(pointer'[1] - position.x.n),
                               Num(pointer'[2] - position.y.n))]_vars
    /\ []((lastEvent[1] = "mousemove" /\ DragActive /\ Numeric(initialPos))
          => position = Obj(Num(ClampTo(pointer[1] - initialPos.x.n,
                                        MaxOffset(innerSize.w, offsetSize.w))),
                            Num(ClampTo(pointer[2] - initialPos.y.n,
                                        MaxOffset(innerSize.h, offsetSize.h)))))

\* A drag that began on a button away from the origin went beyond the viewport
\* and came back to a coordinate inside it.
NoDriftWitness ==
    /\ lastEvent[1] = "mousemove"
    /\ DragActive
    /\ Numeric(initialPos)
    /\ Within(gesture.start)
    /\ gesture.start # DefaultPosition
    /\ ~gesture.inb
    /\ ~gesture.beyond
    /\ position # gesture.start

\* The placement at the default bottom-right anchor, and the placement at the
\* literal coordinates of a position.
DefaultAnchor == [bottom |-> Rem, right |-> Rem, top |-> Auto, left |-> Auto]
LiteralPlacement(pos) ==
    [bottom |-> Auto, right |-> Auto, top |-> Px(pos.y), left |-> Px(pos.x)]

\* C15 (sentinel): a mounted button whose position is within the bounds (and was
\* so at the last pointer-down) is placed at the default bottom-right anchor
\* exactly when its position is (0,0); at every other position, one with a
\* single coordinate equal to 0 included, it is placed at its literal x and y on
\* both axes.
SentinelPair ==
    (mounted /\ Within(position) /\ Within(gesture.start))
    => ButtonStyle(position) = IF position = DefaultPosition
                               THEN DefaultAnchor
                               ELSE LiteralPlacement(position)

\* A render of an instance that is not in the tree, with the current anchor.
Detached == Env(0, TRUE, initialPos, position)

\* The position has numeric coordinates in [0, viewportW] x [0, viewportH].
InWindow(pos) ==
    /\ Numeric(pos)
    /\ 0 <= pos.x.n /\ pos.x.n <= innerSize.w
    /\ 0 <= pos.y.n /\ pos.y.n <= innerSize.h

\* C16 (measurement failure): with a numeric anchor, a pointer-move of a drag
\* whose button reports no size raises nothing and sets a position in
\* [0, viewportW] x [0, viewportH], the clamp taking 0 for the size; and
\* handleMouseMove of a render whose element reference is missing computes a
\* position in the same range for every pointer coordinate.
MeasurementFailure ==
    /\ (/\ lastEvent[1] = "mousemove"
        /\ DragActive
        /\ Numeric(initialPos)
        /\ offsetSize.w = 0
        /\ offsetSize.h = 0)
       => /\ ~raised
          /\ InWindow(position)
          /\ position = Obj(Num(ClampTo(pointer[1] - initialPos.x.n, innerSize.w)),
                            Num(ClampTo(pointer[2] - initialPos.y.n, innerSize.h)))
    /\ Numeric(initialPos)
       => \A cx \in AllCoords, cy \in AllCoords :
            InWindow(HandleMouseMove(Detached, cx, cy))

\* A pointer-move of a drag took a button that reports no size to the right
\* edge of a window: x is the window's width.
MeasurementFailureWitness ==
    /\ lastEvent[1] = "mousemove"
    /\ DragActive
    /\ Numeric(initialPos)
    /\ offsetSize.w = 0
    /\ offsetSize.h = 0
    /\ innerSize.w > 0
    /\ position.x = Num(innerSize.w)
    /\ InWindow(HandleMouseMove(Detached, pointer[1], pointer[2]))

\* C17 (no navigation while dragging): navigate is called only by a click or a
\* key-down of Enter or Space, and only in a state whose dragging flag is false.
NavigationOutsideDrag ==
    /\ [][navigated' > 0 => ~isDragging /\ ~isDragging']_vars
    /\ [](navigated > 0
          => \/ lastEvent[1] = "click"
             \/ lastEvent = <<"keydown", "Enter">>
             \/ lastEvent = <<"keydown", " ">>)

\* The click that the release of a drag delivers called navigate, after the
\* pointer-up had ended the drag.
NavigationOutsideDragWitness ==
    /\ lastEvent[1] = "click"
    /\ gesture.phase = "clicked"
    /\ gesture.moved
    /\ navigated = 1
    /\ ~isDragging

\* C18 (teardown in the middle of a drag): after the component is taken out of
\* the tree between a pointer-down and its pointer-up, the stored item is the
\* one of the pointer-down, no setItem and no navigate call was made, no window
\* listener is left, and the pointer-moves and pointer-ups that arrive change
\* neither the component, the listeners nor the store.
TeardownMidDrag ==
    /\ [](gesture.phase = "torn"
          => /\ ~mounted
             /\ localStorage = gesture.store
             /\ wrote = 0
             /\ navigated = 0
             /\ ~raised
             /\ mousemoveListeners = <<>>
             /\ mouseupListeners = <<>>)
    /\ [][(gesture.phase = "torn" /\ lastEvent'[1] \in {"mousemove", "mouseup"})
          => UNCHANGED <<component, listeners, localStorage, saved>>]_vars

\* A pointer-up arrived after a teardown in the middle of a drag that had moved
\* the button; the store holds the record of an earlier drag.
TeardownMidDragWitness ==
    /\ gesture.phase = "torn"
    /\ lastEvent[1] = "mouseup"
    /\ saved # None
    /\ localStorage = JSONStringify(saved)
    /\ localStorage = gesture.store
    /\ wrote = 0

====
